---- MODULE Spec2Model ----
(***************************************************************************)
(* A model of cc0::scale (scale.h): the fixed-point number fixed<bits,     *)
(* precision>, and scale(), the N-dimensional resampling iterator that     *)
(* walks a destination area and hands the processor, for every destination *)
(* index, the fixed-point source index that belongs to it.                 *)
(*                                                                         *)
(* A fixed<bits,precision> value is modelled by its value_bits, an integer *)
(* of `bits` bits.  A Point is a function from the axes 0..dimensions-1,   *)
(* an Area a record [a, b] of two Points.                                  *)
(***************************************************************************)
EXTENDS Integers, Sequences, FiniteSets, TLC

\* fixed32_t is fixed<32,15>
precision == 15

\* Bounds of the model: destination and mask coordinates are drawn from
\* 0..MaxDst, the integer parts of source coordinates from 0..MaxSrc, the
\* operands of the fixed-point computations from -MaxOperand..MaxOperand.
MaxDst == 2
MaxSrc == 2
MaxOperand == 16

VARIABLES
    dimensions,   \* the template parameter `dimensions` of the calls
    schedule,     \* per call: the calls its caller completes before it starts
    frame,        \* per call: the locals of scale() and of the iterator
    invoked,      \* per call: the processor invocations so far, in order
    memory,       \* the destination arrays the write processors point into
    fx            \* the operands and result of a fixed-point computation

vars == <<dimensions, schedule, frame, invoked, memory, fx>>

(***************************************************************************)
(* Integer helpers                                                         *)
(***************************************************************************)
RECURSIVE Pow2(_)
Pow2(n) == IF n = 0 THEN 1 ELSE 2 * Pow2(n - 1)

Abs(x) == IF x < 0 THEN -x ELSE x

\* C++ integer division: the quotient is truncated toward zero.
cdiv(x, y) ==
    LET q == Abs(x) \div Abs(y)
    IN  IF (x < 0) # (y < 0) THEN -q ELSE q

\* Conversion of an integer to the signed type of w bits (two's complement).
\* Integers of 32 bits and more are left as they are: no value of the model
\* leaves them.
int_t(w, x) ==
    IF w >= 32 THEN x
    ELSE LET m == Pow2(w)
             r == x % m
         IN  IF r >= m \div 2 THEN r - m ELSE r

\* intinfo<bits>::next: the next larger width, 64 being its own next.
next_bits(w) == IF w >= 64 THEN 64 ELSE 2 * w

(***************************************************************************)
(* fixed<bits,precision>                                                   *)
(***************************************************************************)
\* fixed(int_t n) : value_bits(n << precision)
fixed_ctor(w, p, n) == int_t(w, n * Pow2(p))

\* Mutant of fixed_int: a division, which rounds toward zero, for the shift.
fixed_int_toward_zero(p, v) == cdiv(v, Pow2(p))

\* operator int_t(): value_bits >> precision, an arithmetic shift.
fixed_int(p, v) == v \div Pow2(p)

\* operator+=, operator-=
fixed_add(w, l, r) == int_t(w, l + r)
fixed_sub(w, l, r) == int_t(w, l - r)

\* operator*=: widen, multiply, shift right, narrow.
fixed_mul(w, p, l, r) ==
    LET n == int_t(next_bits(w), l * r)
    IN  int_t(w, n \div Pow2(p))

\* operator/=: widen, shift left, divide by the unwidened divisor, narrow.
fixed_div(w, p, l, r) ==
    int_t(w, cdiv(int_t(next_bits(w), l * Pow2(p)), r))

(***************************************************************************)
(* fixed32_t as scale() uses it.  Its comparisons go through operator      *)
(* int_t(), the only conversion the type offers: they compare the integer  *)
(* parts.  The 32-bit sums stay far inside the width for the inputs below. *)
(***************************************************************************)
to_int32(v) == fixed_int(precision, v)

\* Mutant of max: the smaller of the two.
max_swapped(a, b) == IF fixed_int(precision, a) > fixed_int(precision, b) THEN b ELSE a

min(a, b) == IF to_int32(a) < to_int32(b) THEN a ELSE b
max(a, b) == IF to_int32(a) > to_int32(b) THEN a ELSE b

\* operator+(fixed32_t, fixed32_t) and operator+= of the iterator
fixed32_add(l, r) == l + r

(***************************************************************************)
(* scale(): the steps of lines 321-345, one operator per statement         *)
(***************************************************************************)
Axes == 0 .. dimensions - 1

\* Lines 321-323: a reversed mask is put in order on every axis.
normalize_mask(m) ==
    [a |-> [i \in DOMAIN m.a |-> IF m.a[i] > m.b[i] THEN m.b[i] ELSE m.a[i]],
     b |-> [i \in DOMAIN m.a |-> IF m.a[i] > m.b[i] THEN m.a[i] ELSE m.b[i]]]

\* Mutant of degenerate: the destination test left out.
degenerate_source_only(da, db, sa, sb) ==
    fixed_int(precision, sa) = fixed_int(precision, sb)

\* Lines 326-327 for one axis: the two tests that make scale() return.
\* src.a == src.b compares two fixed32_t, hence their integer parts.
degenerate(da, db, sa, sb) ==
    \/ da = db
    \/ to_int32(sa) = to_int32(sb)

\* Line 335: the destination range lies outside the mask.
mask_rejects(da, db, ma, mb) == db < ma \/ da >= mb

\* Mutant of axis_delta: the destination width taken inclusive.
axis_delta_inclusive(sa, sb, da, db) == cdiv(sb - sa, db - da + 1)

\* Line 336: the source step per destination step, in value_bits.
axis_delta(sa, sb, da, db) == cdiv(sb - sa, db - da)

\* Mutant of axis_start: a backward step starts at the maximum itself.
axis_start_at_max(sa, sb, delta) ==
    IF delta >= 0 THEN min(sa, sb) ELSE max(sa, sb)

\* Line 337: where the source index starts.
axis_start(sa, sb, delta) ==
    IF delta >= 0 THEN min(sa, sb) ELSE fixed32_add(max(sa, sb), delta)

\* Mutant of clip_start: the source start is not moved along.
clip_start_uncompensated(start, delta, da, ma) == start

\* Mutant of clip_a: the destination start is not clipped.
clip_a_unclipped(da, ma) == da

\* Mutant of clip_b: the destination end is not clipped.
clip_b_unclipped(db, mb) == db

\* Lines 338-341: clipping at the mask's start moves the source start along.
clip_start(start, delta, da, ma) ==
    IF da < ma THEN start + delta * (ma - da) ELSE start

clip_a(da, ma) == IF da < ma THEN ma ELSE da

\* Lines 342-344: clipping at the mask's end.
clip_b(db, mb) == IF db >= mb THEN mb ELSE db

(***************************************************************************)
(* The calls.  A frame holds scale()'s by-value parameters (dst_area,      *)
(* src_area, dst_mask: copies of the caller's args), its locals, and the   *)
(* iterator's position: pc is the statement the call is at, i the axis of  *)
(* the loop of line 330, index the template parameter of the iterator that *)
(* is running.  The points declared without a value (lines 329, 346, 347)  *)
(* are written on every axis before they are read; they start at 0 here.   *)
(***************************************************************************)
CallIds == 1 .. 3
Buffers == 1 .. 2

\* The source array of the write processors: element k holds 10 + k.
m_src(k) == 10 + k

Unused == [pc |-> "unused"]

NewFrame(args, buf) ==
    [pc        |-> "scale",
     args      |-> args,
     dst_area  |-> args.dst_area,
     src_area  |-> args.src_area,
     dst_mask  |-> args.dst_mask,
     i         |-> 0,
     index     |-> 0,
     src_delta |-> [k \in DOMAIN args.dst_area.a |-> 0],
     src_start |-> [k \in DOMAIN args.dst_area.a |-> 0],
     dst_index |-> [k \in DOMAIN args.dst_area.a |-> 0],
     src_index |-> [k \in DOMAIN args.dst_area.a |-> 0],
     divisors  |-> << >>,
     m_dst     |-> buf]

\* Lines 321-323.
scale_mask(c) ==
    /\ frame[c].pc = "scale"
    /\ \A d \in schedule[c] : frame[d].pc = "done"
    /\ frame' = [frame EXCEPT ![c] =
           [@ EXCEPT !.dst_mask = normalize_mask(@), !.pc = "check"]]
    /\ UNCHANGED <<dimensions, schedule, invoked, memory, fx>>

\* Lines 325-328: a degenerate axis returns before anything is computed.
scale_check(c) ==
    LET f == frame[c] IN
    /\ f.pc = "check"
    /\ frame' = [frame EXCEPT ![c].pc =
           IF \E k \in Axes : degenerate(f.dst_area.a[k], f.dst_area.b[k],
                                          f.src_area.a[k], f.src_area.b[k])
           THEN "done" ELSE "axis"]
    /\ UNCHANGED <<dimensions, schedule, invoked, memory, fx>>

\* Lines 331-344 for axis i, and the ++i of line 330.  A division by zero
\* has no defined outcome: the call is then at "undefined".
scale_axis(c) ==
    LET f   == frame[c]
        i   == f.i
        rev == f.dst_area.a[i] > f.dst_area.b[i]
        da  == IF rev THEN f.dst_area.b[i] ELSE f.dst_area.a[i]
        db  == IF rev THEN f.dst_area.a[i] ELSE f.dst_area.b[i]
        sa  == IF rev THEN f.src_area.b[i] ELSE f.src_area.a[i]
        sb  == IF rev THEN f.src_area.a[i] ELSE f.src_area.b[i]
        ma  == f.dst_mask.a[i]
        mb  == f.dst_mask.b[i]
        swapped == [f EXCEPT !.dst_area.a[i] = da, !.dst_area.b[i] = db,
                             !.src_area.a[i] = sa, !.src_area.b[i] = sb]
        delta == axis_delta(sa, sb, da, db)
        start == axis_start(sa, sb, delta)
    IN
    /\ f.pc = "axis"
    /\ frame' = [frame EXCEPT ![c] =
           IF mask_rejects(da, db, ma, mb)
           THEN [swapped EXCEPT !.pc = "done"]
           ELSE IF db - da = 0
           THEN [swapped EXCEPT !.pc = "undefined",
                                !.divisors = Append(@, db - da)]
           ELSE [swapped EXCEPT
                    !.divisors = Append(@, db - da),
                    !.src_delta[i] = delta,
                    !.src_start[i] = clip_start(start, delta, da, ma),
                    !.dst_area.a[i] = clip_a(da, ma),
                    !.dst_area.b[i] = clip_b(db, mb),
                    !.i = i + 1,
                    !.index = dimensions - 1,
                    !.pc = IF i + 1 < dimensions THEN "axis" ELSE "enter"]]
    /\ UNCHANGED <<dimensions, schedule, invoked, memory, fx>>

\* Mutant of loop_test: the loop runs up to dst_area.b inclusive.
loop_test_inclusive(f, k, d) ==
    IF d <= f.dst_area.b[k]
    THEN IF k = 0 THEN [pc |-> "processor", index |-> 0]
                  ELSE [pc |-> "enter", index |-> k - 1]
    ELSE IF k = dimensions - 1 THEN [pc |-> "done", index |-> k]
                               ELSE [pc |-> "next", index |-> k + 1]

\* The loop condition of iterator<k> (lines 219, 241) with dst_index[k] = d,
\* and where control goes from it: into the body (the processor for k = 0,
\* iterator<k-1> otherwise), or out of the loop, back to the increment of
\* iterator<k+1>, the outermost iterator returning to scale().
loop_test(f, k, d) ==
    IF d < f.dst_area.b[k]
    THEN IF k = 0 THEN [pc |-> "processor", index |-> 0]
                  ELSE [pc |-> "enter", index |-> k - 1]
    ELSE IF k = dimensions - 1 THEN [pc |-> "done", index |-> k]
                               ELSE [pc |-> "next", index |-> k + 1]

\* The init-statement of the for loop of iterator<index>, then its test.
iterator_enter(c) ==
    LET f == frame[c]
        k == f.index
        t == loop_test(f, k, f.dst_area.a[k])
    IN
    /\ f.pc = "enter"
    /\ frame' = [frame EXCEPT ![c] =
           [@ EXCEPT !.dst_index[k] = f.dst_area.a[k],
                     !.src_index[k] = f.src_start[k],
                     !.pc = t.pc, !.index = t.index]]
    /\ UNCHANGED <<dimensions, schedule, invoked, memory, fx>>

\* The increment of the for loop of iterator<index>, then its test.
iterator_next(c) ==
    LET f == frame[c]
        k == f.index
        t == loop_test(f, k, f.dst_index[k] + 1)
    IN
    /\ f.pc = "next"
    /\ frame' = [frame EXCEPT ![c] =
           [@ EXCEPT !.dst_index[k] = @ + 1,
                     !.src_index[k] = fixed32_add(@, f.src_delta[k]),
                     !.pc = t.pc, !.index = t.index]]
    /\ UNCHANGED <<dimensions, schedule, invoked, memory, fx>>

\* write::operator(): m_dst[dst[0]] = m_src[int32_t(src[0])]
write(array, dst, src) == [array EXCEPT ![dst[0]] = m_src(to_int32(src[0]))]

\* Line 242: processor(dst_index, src_index).  The invocation is recorded;
\* in one dimension the processor is a write object.
processor(c) ==
    LET f == frame[c] IN
    /\ f.pc = "processor"
    /\ invoked' = [invoked EXCEPT ![c] =
           Append(@, [dst |-> f.dst_index, src |-> f.src_index])]
    /\ memory' = IF dimensions = 1
                 THEN [memory EXCEPT ![f.m_dst] = write(@, f.dst_index, f.src_index)]
                 ELSE memory
    /\ frame' = [frame EXCEPT ![c] = [@ EXCEPT !.pc = "next", !.index = 0]]
    /\ UNCHANGED <<dimensions, schedule, fx>>

Next ==
    \E c \in CallIds :
        \/ scale_mask(c)
        \/ scale_check(c)
        \/ scale_axis(c)
        \/ iterator_enter(c)
        \/ iterator_next(c)
        \/ processor(c)

(***************************************************************************)
(* The arguments of the calls                                              *)
(***************************************************************************)
One == Pow2(precision)

\* Destination and mask coordinates; source coordinates, whole ones and
\* ones a single bit below the next whole number.
DstCoord == 0 .. MaxDst
SrcCoord == {n * One + f : n \in 0 .. MaxSrc, f \in {0, One - 1}}

\* An area from one <<a, b>> pair per axis.
AreaOf(pairs) ==
    [a |-> [k \in DOMAIN pairs |-> pairs[k][1]],
     b |-> [k \in DOMAIN pairs |-> pairs[k][2]]]

\* In one dimension every combination of the coordinates.
Args1 ==
    {[dst_area |-> AreaOf(d), src_area |-> AreaOf(s), dst_mask |-> AreaOf(m)] :
        d \in [{0} -> DstCoord \X DstCoord],
        s \in [{0} -> SrcCoord \X SrcCoord],
        m \in [{0} -> DstCoord \X DstCoord]}

\* In two dimensions every destination area, with on each axis a source
\* range that is forward, reversed or within one whole number, and a mask
\* that covers the axis, cuts its start (given reversed), cuts its end, or
\* is empty.
SrcPairs2  == {<<0, MaxSrc * One>>, <<MaxSrc * One, 0>>, <<0, One - 1>>}
MaskPairs2 == {<<0, MaxDst>>, <<MaxDst, 1>>, <<0, 1>>, <<MaxDst, MaxDst>>}

Args2 ==
    {[dst_area |-> AreaOf(d), src_area |-> AreaOf(s), dst_mask |-> AreaOf(m)] :
        d \in [{0, 1} -> DstCoord \X DstCoord],
        s \in [{0, 1} -> SrcPairs2],
        m \in [{0, 1} -> MaskPairs2]}

Args(D) == IF D = 1 THEN Args1 ELSE Args2

EmptyArray == [k \in DstCoord |-> 0]

NoFixed == [pc |-> "idle"]

\* One call of scale(), in one or two dimensions.
Init ==
    /\ dimensions \in {1, 2}
    /\ \E args \in Args(dimensions) :
           frame = [c \in CallIds |-> IF c = 1 THEN NewFrame(args, 1) ELSE Unused]
    /\ schedule = [c \in CallIds |-> {}]
    /\ invoked = [c \in CallIds |-> << >>]
    /\ memory = [b \in Buffers |-> EmptyArray]
    /\ fx = NoFixed

Spec == Init /\ [][Next]_vars

(***************************************************************************)
(* Properties of one call                                                  *)
(***************************************************************************)
Lo(x, y) == IF x < y THEN x ELSE y
Hi(x, y) == IF x > y THEN x ELSE y

Started == {c \in CallIds : frame[c].pc # "unused"}
Returned(c) == frame[c].pc = "done"

\* The destination tuples a call has delivered so far.
Delivered(c) == {invoked[c][j].dst : j \in 1 .. Len(invoked[c])}

\* The destination range of the arguments, clipped to their mask, on axis k.
ClipLo(args, k) == Hi(Lo(args.dst_area.a[k], args.dst_area.b[k]),
                      Lo(args.dst_mask.a[k], args.dst_mask.b[k]))
ClipHi(args, k) == Lo(Hi(args.dst_area.a[k], args.dst_area.b[k]),
                      Hi(args.dst_mask.a[k], args.dst_mask.b[k]))
Clipped(args) ==
    {t \in [Axes -> DstCoord] :
        \A k \in Axes : ClipLo(args, k) <= t[k] /\ t[k] < ClipHi(args, k)}

\* The mask of the arguments covers their destination range on every axis.
Covers(args) ==
    \A k \in Axes :
        /\ Lo(args.dst_mask.a[k], args.dst_mask.b[k])
              <= Lo(args.dst_area.a[k], args.dst_area.b[k])
        /\ Hi(args.dst_mask.a[k], args.dst_mask.b[k])
              >= Hi(args.dst_area.a[k], args.dst_area.b[k])

\* C1: every destination index the processor is given lies, on every axis,
\* inside the normalized destination range and inside the normalized mask
\* range; a destination range and a mask that are disjoint on some axis
\* leave the processor uninvoked.
C1_InsideDestinationAndMask ==
    \A c \in Started :
        LET args == frame[c].args IN
        /\ \A j \in 1 .. Len(invoked[c]) : \A k \in Axes :
              LET d == invoked[c][j].dst[k] IN
              /\ Lo(args.dst_area.a[k], args.dst_area.b[k]) <= d
              /\ d < Hi(args.dst_area.a[k], args.dst_area.b[k])
              /\ Lo(args.dst_mask.a[k], args.dst_mask.b[k]) <= d
              /\ d < Hi(args.dst_mask.a[k], args.dst_mask.b[k])
        /\ (\E k \in Axes : ClipLo(args, k) >= ClipHi(args, k))
              => invoked[c] = << >>

\* A two-dimensional call has returned after invocations, its mask having
\* cut the start of the destination range on one axis and its end on the other.
C1_Witness ==
    /\ dimensions = 2
    /\ Returned(1)
    /\ Len(invoked[1]) > 0
    /\ \E k, l \in Axes :
          /\ k # l
          /\ frame[1].dst_mask.a[k] > Lo(frame[1].args.dst_area.a[k], frame[1].args.dst_area.b[k])
          /\ frame[1].dst_mask.b[l] < Hi(frame[1].args.dst_area.a[l], frame[1].args.dst_area.b[l])

\* C4 as claimed: a call whose destination endpoints differ and whose source
\* endpoints differ as fixed-point values on every axis invokes the
\* processor exactly once for each tuple of the clipped destination ranges,
\* and for no other tuple.
C4_ExactlyOnceCoverage ==
    \A c \in Started :
        LET args == frame[c].args IN
        (/\ Returned(c)
         /\ \A k \in Axes : /\ args.dst_area.a[k] # args.dst_area.b[k]
                             /\ args.src_area.a[k] # args.src_area.b[k])
        => /\ Delivered(c) = Clipped(args)
           /\ Len(invoked[c]) = Cardinality(Clipped(args))

\* C5: a one-dimensional call with whole-number endpoints, dst = [p, p+n)
\* and src = [s, s+n) with n >= 1, under a mask that covers the destination,
\* delivers for destination index p+k exactly the source index s+k with no
\* fractional bits, for every 0 <= k < n, and the write processor has
\* copied source[s+k] into destination[p+k].
C5_EqualWidthIdentity ==
    \A c \in Started :
        LET args == frame[c].args
            p == args.dst_area.a[0]
            n == args.dst_area.b[0] - p
            s == args.src_area.a[0]
        IN
        (/\ dimensions = 1
         /\ Returned(c)
         /\ n >= 1
         /\ s % One = 0
         /\ args.src_area.b[0] = s + n * One
         /\ Covers(args))
        => /\ Len(invoked[c]) = n
           /\ \A k \in 0 .. n - 1 :
                 /\ invoked[c][k + 1].dst[0] = p + k
                 /\ invoked[c][k + 1].src[0] = s + k * One
                 /\ memory[frame[c].m_dst][p + k] = m_src(s \div One + k)

\* The call scale([0,2), [0,2), write, [0,2)) has returned.
C5_Witness ==
    /\ dimensions = 1
    /\ Returned(1)
    /\ frame[1].args.dst_area = [a |-> (0 :> 0), b |-> (0 :> 2)]
    /\ frame[1].args.src_area = [a |-> (0 :> 0), b |-> (0 :> 2 * One)]
    /\ frame[1].args.dst_mask = [a |-> (0 :> 0), b |-> (0 :> 2)]
    /\ Len(invoked[1]) = 2

\* C6: when on some axis the destination endpoints are equal or the source
\* endpoints are equal, the call invokes the processor never and evaluates
\* the division of line 336 on no axis; every divisor a call does evaluate
\* is strictly positive, so no call divides by zero.
C6_DegenerateShortCircuit ==
    \A c \in Started :
        LET args == frame[c].args IN
        /\ (\E k \in Axes : \/ args.dst_area.a[k] = args.dst_area.b[k]
                             \/ args.src_area.a[k] = args.src_area.b[k])
              => /\ invoked[c] = << >>
                 /\ frame[c].divisors = << >>
                 /\ frame[c].pc \in {"scale", "check", "done"}
        /\ frame[c].pc # "undefined"
        /\ \A j \in 1 .. Len(frame[c].divisors) : frame[c].divisors[j] > 0

\* A two-dimensional call whose axis 1 alone is degenerate has returned.
C6_Witness ==
    /\ dimensions = 2
    /\ Returned(1)
    /\ frame[1].args.dst_area.a[0] # frame[1].args.dst_area.b[0]
    /\ to_int32(frame[1].args.src_area.a[0]) # to_int32(frame[1].args.src_area.b[0])
    /\ ~ mask_rejects(Lo(frame[1].args.dst_area.a[0], frame[1].args.dst_area.b[0]),
                       Hi(frame[1].args.dst_area.a[0], frame[1].args.dst_area.b[0]),
                       frame[1].dst_mask.a[0], frame[1].dst_mask.b[0])
    /\ frame[1].args.dst_area.a[1] = frame[1].args.dst_area.b[1]

\* Tuple t comes before tuple u in the order that takes the highest axis as
\* the most significant.
Before(t, u) ==
    \E k \in Axes :
        /\ t[k] < u[k]
        /\ \A l \in Axes : l > k => t[l] = u[l]

\* C9: the destination tuples of a call are delivered in strictly increasing
\* order, axis dimensions-1 being the most significant and axis 0 the least,
\* so none is delivered twice; the destination [0,2)x[0,2) is delivered as
\* (0,0), (1,0), (0,1), (1,1), written (axis 0, axis 1): four invocations.
C9_NestedOrder ==
    \A c \in Started :
        LET args == frame[c].args IN
        /\ \A j \in 1 .. Len(invoked[c]) - 1 :
              Before(invoked[c][j].dst, invoked[c][j + 1].dst)
        /\ (/\ dimensions = 2
            /\ Returned(c)
            /\ args.dst_area = [a |-> (0 :> 0 @@ 1 :> 0), b |-> (0 :> 2 @@ 1 :> 2)]
            /\ \A k \in Axes : to_int32(args.src_area.a[k]) # to_int32(args.src_area.b[k])
            /\ Covers(args))
           => [j \in 1 .. Len(invoked[c]) |-> invoked[c][j].dst]
                 = << (0 :> 0 @@ 1 :> 0), (0 :> 1 @@ 1 :> 0),
                      (0 :> 0 @@ 1 :> 1), (0 :> 1 @@ 1 :> 1) >>

\* The call over the destination [0,2)x[0,2) has returned after four invocations.
C9_Witness ==
    /\ dimensions = 2
    /\ Returned(1)
    /\ frame[1].args.dst_area = [a |-> (0 :> 0 @@ 1 :> 0), b |-> (0 :> 2 @@ 1 :> 2)]
    /\ Len(invoked[1]) = 4

\* C10: every source index the processor is given lies, on every axis, in
\* the source span of the arguments: min(src.a, src.b) <= s < max(src.a,
\* src.b) as fixed-point values.
C10_SourceIndexInSpan ==
    \A c \in Started :
        LET args == frame[c].args IN
        \A j \in 1 .. Len(invoked[c]) : \A k \in Axes :
            LET s == invoked[c][j].src[k] IN
            /\ Lo(args.src_area.a[k], args.src_area.b[k]) <= s
            /\ s < Hi(args.src_area.a[k], args.src_area.b[k])

\* A call with a reversed source range with a fractional endpoint, too
\* narrow for its destination range (the step is zero), has returned after
\* invocations; its destination range was reversed too and cut by the mask.
C10_Witness ==
    /\ dimensions = 1
    /\ Returned(1)
    /\ frame[1].args.src_area.a[0] > frame[1].args.src_area.b[0]
    /\ frame[1].args.src_area.b[0] % One # 0
    /\ frame[1].src_delta[0] = 0
    /\ frame[1].args.dst_area.a[0] > frame[1].args.dst_area.b[0]
    /\ frame[1].dst_mask.a[0] > frame[1].args.dst_area.b[0]
    /\ Len(invoked[1]) > 0

(***************************************************************************)
(* Two calls, one after the other: call 1 with any arguments, then call 2  *)
(* with the same source area and either the same destination area under a  *)
(* mask that covers it, or (in one dimension) the destination area         *)
(* reversed under the same mask.  Each writes an array of its own.         *)
(***************************************************************************)
Normalized(area) ==
    [a |-> [k \in DOMAIN area.a |-> Lo(area.a[k], area.b[k])],
     b |-> [k \in DOMAIN area.a |-> Hi(area.a[k], area.b[k])]]

WholeMask(D) == [a |-> [k \in 0 .. D - 1 |-> 0], b |-> [k \in 0 .. D - 1 |-> MaxDst]]

Unmasked(args) ==
    {[args EXCEPT !.dst_mask = m] :
        m \in {Normalized(args.dst_area), WholeMask(dimensions)}}

Reversed(args) ==
    [args EXCEPT !.dst_area = [a |-> args.dst_area.b, b |-> args.dst_area.a]]

Second(args) ==
    Unmasked(args) \cup (IF dimensions = 1 THEN {Reversed(args)} ELSE {})

InitPair ==
    /\ dimensions \in {1, 2}
    /\ \E args \in Args(dimensions) : \E args2 \in Second(args) :
           frame = [c \in CallIds |->
                       IF c = 1 THEN NewFrame(args, 1)
                       ELSE IF c = 2 THEN NewFrame(args2, 2)
                       ELSE Unused]
    /\ schedule = [c \in CallIds |-> IF c = 2 THEN {1} ELSE {}]
    /\ invoked = [c \in CallIds |-> << >>]
    /\ memory = [b \in Buffers |-> EmptyArray]
    /\ fx = NoFixed

SpecPair == InitPair /\ [][Next]_vars

\* The invocations of call c whose destination index lies in the
\* normalized mask m.
Restricted(c, m) ==
    LET Inside(e) == \A k \in Axes : m.a[k] <= e.dst[k] /\ e.dst[k] < m.b[k]
    IN  SelectSeq(invoked[c], Inside)

\* C2: the invocations of a masked call are those of the call with the same
\* destination and source areas and a mask covering the destination range,
\* restricted to the mask: the same destination indices, each paired with
\* the same source index, bit for bit.
C2_ClipInvariant ==
    (/\ Returned(1) /\ Returned(2)
     /\ frame[2].args.dst_area = frame[1].args.dst_area
     /\ frame[2].args.src_area = frame[1].args.src_area
     /\ Covers(frame[2].args))
    => invoked[1] = Restricted(2, Normalized(frame[1].args.dst_mask))

\* Both calls have returned, the first one under a mask that cut the start
\* of a reversed destination range, after at least one invocation and
\* fewer than the second call made.
C2_Witness ==
    /\ Returned(1) /\ Returned(2)
    /\ frame[2].args.dst_area = frame[1].args.dst_area
    /\ Covers(frame[2].args)
    /\ frame[1].args.dst_area.a[0] > frame[1].args.dst_area.b[0]
    /\ frame[1].dst_mask.a[0] > frame[1].args.dst_area.b[0]
    /\ Len(invoked[1]) > 0
    /\ Len(invoked[2]) > Len(invoked[1])

\* Call 1 runs forward over [p,q) and call 2 over the same range reversed,
\* both with the same source range and under a mask that covers [p,q).
ReversalPair ==
    /\ dimensions = 1
    /\ Returned(1) /\ Returned(2)
    /\ frame[1].args.dst_area.a[0] < frame[1].args.dst_area.b[0]
    /\ frame[2].args = Reversed(frame[1].args)
    /\ Covers(frame[1].args)

\* The array call 2 wrote is the array call 1 wrote, mirrored within [p,q).
Mirrored ==
    LET p == frame[1].args.dst_area.a[0]
        q == frame[1].args.dst_area.b[0]
    IN  \A k \in 0 .. q - p - 1 :
            memory[frame[2].m_dst][p + k] = memory[frame[1].m_dst][q - 1 - k]

\* C3 as claimed: reversing the destination endpoints makes the write
\* processor sample the source elements in reverse order, rev(p+k) =
\* fwd(q-1-k), whatever the ratio of the source width to the destination
\* width.
C3_ReversalAnyRatio == ReversalPair => Mirrored

\* C3 amended: reversing the destination endpoints makes the write processor
\* sample the source elements in reverse order, rev(p+k) = fwd(q-1-k), when
\* the source width in value_bits is a multiple of the destination width.
C3_ReversalExactRatio ==
    (/\ ReversalPair
     /\ (frame[1].args.src_area.b[0] - frame[1].args.src_area.a[0])
           % (frame[1].args.dst_area.b[0] - frame[1].args.dst_area.a[0]) = 0)
    => Mirrored

\* A forward and a reversed call over a destination range of width 2 have
\* returned, the source range having fractional endpoints and an even width.
C3_Witness ==
    /\ ReversalPair
    /\ frame[1].args.dst_area.b[0] - frame[1].args.dst_area.a[0] = 2
    /\ frame[1].args.src_area.a[0] % One # 0
    /\ (frame[1].args.src_area.b[0] - frame[1].args.src_area.a[0]) % 2 = 0
    /\ Len(invoked[1]) = 2
    /\ Len(invoked[2]) = 2
    /\ memory[1][frame[1].args.dst_area.a[0]] # memory[1][frame[1].args.dst_area.a[0] + 1]

(***************************************************************************)
(* Mask partitioning.  Call 3 runs under a mask that is the whole          *)
(* destination range and writes array 2.  Then calls 1 and 2 run side by   *)
(* side, their steps interleaved in any order, with the same destination   *)
(* and source areas, under the two sub-masks that split the destination    *)
(* range at `cut` on axis `split`, each given forward or reversed; both    *)
(* write array 1.                                                          *)
(***************************************************************************)
SubMasks(area, split, cut) ==
    LET n == Normalized(area)
        lower == {[n EXCEPT !.b[split] = cut],
                  [a |-> [n.a EXCEPT ![split] = cut], b |-> [n.b EXCEPT ![split] = n.a[split]]]}
        upper == {[n EXCEPT !.a[split] = cut],
                  [a |-> [n.a EXCEPT ![split] = n.b[split]], b |-> [n.b EXCEPT ![split] = cut]]}
    IN  lower \X upper

InitPar ==
    /\ dimensions \in {1, 2}
    /\ \E args \in Args(dimensions) : \E split \in 0 .. dimensions - 1 :
       \E cut \in Lo(args.dst_area.a[split], args.dst_area.b[split])
                    .. Hi(args.dst_area.a[split], args.dst_area.b[split]) :
       \E m \in SubMasks(args.dst_area, split, cut) :
           /\ args.dst_mask = Normalized(args.dst_area)
           /\ frame = [c \in CallIds |->
                         IF c = 3 THEN NewFrame(args, 2)
                         ELSE NewFrame([args EXCEPT !.dst_mask = m[c]], 1)]
    /\ schedule = [c \in CallIds |-> IF c = 3 THEN {} ELSE {3}]
    /\ invoked = [c \in CallIds |-> << >>]
    /\ memory = [b \in Buffers |-> EmptyArray]
    /\ fx = NoFixed

SpecPar == InitPar /\ [][Next]_vars

\* The (destination index, source index) pairs of a call.
Pairs(c) == {invoked[c][j] : j \in 1 .. Len(invoked[c])}

\* C7: two calls under disjoint sub-masks that together cover the
\* destination range deliver disjoint sets of destination tuples, whose
\* union is what one call under the whole range delivers, each tuple with
\* the same source index as in that call; however their invocations of the
\* write processor interleave, they leave the array that call leaves.
C7_MaskPartitioning ==
    /\ Delivered(1) \cap Delivered(2) = {}
    /\ Pairs(1) \cup Pairs(2) \subseteq Pairs(3)
    /\ (Returned(1) /\ Returned(2) /\ Returned(3))
          => /\ Delivered(1) \cup Delivered(2) = Delivered(3)
             /\ Pairs(1) \cup Pairs(2) = Pairs(3)
             /\ memory[frame[1].m_dst] = memory[frame[3].m_dst]

\* Both sub-mask calls and the whole-range call have returned, each sub-mask
\* call after invocations of its own, and array 1 has been written.
C7_Witness ==
    /\ Returned(1) /\ Returned(2) /\ Returned(3)
    /\ Len(invoked[1]) > 0
    /\ Len(invoked[2]) > 0
    /\ frame[1].m_dst = frame[2].m_dst
    /\ memory[1] # EmptyArray

(***************************************************************************)
(* Fixed-point computations: l = fixed(a) and r = fixed(b) are             *)
(* constructed, one of l += r, l -= r, l *= r, l /= r is applied, and l is *)
(* converted back to an integer n.  fx holds the instantiation <bits,      *)
(* precision> and the values.  A division by zero has no defined outcome:  *)
(* the computation is then at "undefined".                                 *)
(***************************************************************************)
Formats == {<<8, 2>>, <<8, 3>>, <<8, 4>>, <<16, 7>>}

fixed_construct ==
    /\ fx.pc = "construct"
    /\ fx' = [fx EXCEPT !.l = fixed_ctor(fx.bits, fx.precision, fx.a),
                        !.r = fixed_ctor(fx.bits, fx.precision, fx.b),
                        !.pc = "operate"]
    /\ UNCHANGED <<dimensions, schedule, frame, invoked, memory>>

operator_add ==
    /\ fx.pc = "operate"
    /\ fx' = [fx EXCEPT !.l = fixed_add(fx.bits, fx.l, fx.r),
                        !.op = "+", !.pc = "convert"]
    /\ UNCHANGED <<dimensions, schedule, frame, invoked, memory>>

operator_sub ==
    /\ fx.pc = "operate"
    /\ fx' = [fx EXCEPT !.l = fixed_sub(fx.bits, fx.l, fx.r),
                        !.op = "-", !.pc = "convert"]
    /\ UNCHANGED <<dimensions, schedule, frame, invoked, memory>>

operator_mul ==
    /\ fx.pc = "operate"
    /\ fx' = [fx EXCEPT !.l = fixed_mul(fx.bits, fx.precision, fx.l, fx.r),
                        !.op = "*", !.pc = "convert"]
    /\ UNCHANGED <<dimensions, schedule, frame, invoked, memory>>

operator_div ==
    /\ fx.pc = "operate"
    /\ fx' = IF fx.r = 0
             THEN [fx EXCEPT !.op = "/", !.pc = "undefined"]
             ELSE [fx EXCEPT !.l = fixed_div(fx.bits, fx.precision, fx.l, fx.r),
                             !.op = "/", !.pc = "convert"]
    /\ UNCHANGED <<dimensions, schedule, frame, invoked, memory>>

operator_int ==
    /\ fx.pc = "convert"
    /\ fx' = [fx EXCEPT !.n = fixed_int(fx.precision, fx.l), !.pc = "done"]
    /\ UNCHANGED <<dimensions, schedule, frame, invoked, memory>>

NextFixed ==
    \/ fixed_construct
    \/ operator_add
    \/ operator_sub
    \/ operator_mul
    \/ operator_div
    \/ operator_int

Operands == -MaxOperand .. MaxOperand

InitFixed ==
    /\ \E f \in Formats : \E a, b \in Operands :
           fx = [pc |-> "construct", bits |-> f[1], precision |-> f[2],
                 a |-> a, b |-> b, l |-> 0, r |-> 0, op |-> "", n |-> 0]
    /\ dimensions = 1
    /\ frame = [c \in CallIds |-> Unused]
    /\ schedule = [c \in CallIds |-> {}]
    /\ invoked = [c \in CallIds |-> << >>]
    /\ memory = [b \in Buffers |-> EmptyArray]

SpecFixed == InitFixed /\ [][NextFixed]_vars

\* n << precision fits the storage width.
Fits(w, p, n) ==
    /\ - Pow2(w - 1) <= n * Pow2(p)
    /\ n * Pow2(p) <= Pow2(w - 1) - 1

\* The quotient rounded toward negative infinity.
Floor(a, b) == IF b > 0 THEN a \div b ELSE (- a) \div (- b)

Divided ==
    /\ fx.pc = "done"
    /\ fx.op = "/"
    /\ fx.b # 0
    /\ Fits(fx.bits, fx.precision, fx.a)
    /\ Fits(fx.bits, fx.precision, fx.b)

====
